---- MODULE Spec2Model ----
(***************************************************************************)
(* The instructions-file synchronisation of .dev_scripts/dev.py:           *)
(* merge_copilot_instructions_to_repoconfig ("capture", workspace ->       *)
(* canonical), apply_copilot_instructions_to_workspace ("apply", canonical *)
(* -> workspace), the two mergers try_git_merge and section_merge, and the *)
(* surrounding cmd_repo_sync / sync_rcfiles workflow.                      *)
(*                                                                         *)
(* A document is a sequence of lines; every line is one of a small set of  *)
(* line texts and is newline-terminated.  A file on disk is a document     *)
(* together with the line terminator it is stored with.                    *)
(***************************************************************************)
EXTENDS Integers, Sequences, FiniteSets, TLC

----------------------------------------------------------------------------
(* Bounds *)

\* Total number of lines of the two files in an initial state.
MaxLines == 3
\* Number of calls of capture and apply in one behaviour; a repo sync makes two.
MaxOps == 2

----------------------------------------------------------------------------
(* Line texts and the string tests the code applies to them *)

PlainLines == {"x", "y"}
BlankLine == ""
HeaderLines == {"## A", "## B"}
OpenMarker == "<<<<<<< HEAD"
SepMarker == "======="
CloseMarker == ">>>>>>> branch"
\* [bt] stands for one backtick character.
FenceLine == "[bt][bt][bt]"
QuotedMarker == "see [bt]<<<<<<<[bt]"
\* The marker lines the two mergers write (labels of dev.py).
MergeOpen == "<<<<<<< repoconfig"
MergeClose == ">>>>>>> workspace"

\* Lines a file of the user may hold in an initial state.
LineTexts ==
  PlainLines \cup HeaderLines
    \cup {BlankLine, OpenMarker, SepMarker, CloseMarker, FenceLine, QuotedMarker}

\* line.startswith('## ')
IsHeader(l) == l \in HeaderLines

\* '<<<<<<<' in line
HasMarkerText(l) == l \in {OpenMarker, MergeOpen, QuotedMarker}

\* not line.strip()
IsSpace(l) == l = BlankLine

\* '<<<<<<<' in content : the substring cannot span a newline
ContainsMarkerText(content) ==
  \E i \in 1..Len(content) : HasMarkerText(content[i])

\* not content.strip()
IsBlank(content) == \A i \in 1..Len(content) : IsSpace(content[i])

\* content.rstrip(), as lines: trailing blank lines and the last newline go
RECURSIVE rstrip(_)
rstrip(content) ==
  IF content = <<>> THEN <<>>
  ELSE IF IsSpace(content[Len(content)])
       THEN rstrip(SubSeq(content, 1, Len(content) - 1))
       ELSE content

RECURSIVE Concat(_)
Concat(parts) ==
  IF parts = <<>> THEN <<>> ELSE Head(parts) \o Concat(Tail(parts))

Max(S) == CHOOSE m \in S : \A n \in S : n <= m
Min(S) == CHOOSE m \in S : \A n \in S : m <= n

----------------------------------------------------------------------------
(* difflib.SequenceMatcher(None, a, b), no junk (documents under 200 lines) *)

\* Length of the common run of a and b starting at a[i], b[j].
RECURSIVE RunLen(_, _, _, _, _, _)
RunLen(a, b, i, j, ahi, bhi) ==
  IF i <= ahi /\ j <= bhi /\ a[i] = b[j]
  THEN 1 + RunLen(a, b, i + 1, j + 1, ahi, bhi)
  ELSE 0

\* The longest matching block in a[alo..ahi], b[blo..bhi]: of all maximal
\* blocks the one that starts earliest in a, and of those earliest in b.
find_longest_match(a, b, alo, ahi, blo, bhi) ==
  LET Pairs == (alo..ahi) \X (blo..bhi)
      k == IF Pairs = {} THEN 0
           ELSE Max({RunLen(a, b, p[1], p[2], ahi, bhi) : p \in Pairs})
  IN IF k = 0 THEN [i |-> alo, j |-> blo, k |-> 0]
     ELSE LET i == Min({p[1] : p \in {q \in Pairs :
                          RunLen(a, b, q[1], q[2], ahi, bhi) = k}})
              j == Min({p[2] : p \in {q \in Pairs :
                          q[1] = i /\ RunLen(a, b, q[1], q[2], ahi, bhi) = k}})
          IN [i |-> i, j |-> j, k |-> k]

\* get_matching_blocks(): the longest block m, then the same to its left and
\* to its right; returned in order as <<i, j, k>> triples.
RECURSIVE get_matching_blocks(_, _, _, _, _, _)
RECURSIVE blocks_around(_, _, _, _, _, _, _)
blocks_around(a, b, alo, ahi, blo, bhi, m) ==
  IF m.k = 0 THEN <<>>
  ELSE get_matching_blocks(a, b, alo, m.i - 1, blo, m.j - 1)
         \o << <<m.i, m.j, m.k>> >>
         \o get_matching_blocks(a, b, m.i + m.k, ahi, m.j + m.k, bhi)

get_matching_blocks(a, b, alo, ahi, blo, bhi) ==
  blocks_around(a, b, alo, ahi, blo, bhi,
                find_longest_match(a, b, alo, ahi, blo, bhi))

\* A base that takes the 'equal' ranges last to first.
equal_lines_reversed(src_lines, blocks) ==
  Concat([n \in 1..Len(blocks) |->
            SubSeq(src_lines, blocks[Len(blocks) + 1 - n][1],
                   blocks[Len(blocks) + 1 - n][1]
                     + blocks[Len(blocks) + 1 - n][3] - 1)])

\* base_lines.extend(src_lines[i1:i2]) for each 'equal' opcode
equal_lines(src_lines, blocks) ==
  Concat([n \in 1..Len(blocks) |->
            SubSeq(src_lines, blocks[n][1], blocks[n][1] + blocks[n][3] - 1)])

\* The lines of the 'equal' opcodes, in order: the reconstructed base.
base_lines(src_lines, dest_lines) ==
  equal_lines(src_lines,
              get_matching_blocks(src_lines, dest_lines,
                                  1, Len(src_lines), 1, Len(dest_lines)))

----------------------------------------------------------------------------
(* section_merge *)

\* sections[header] = body on a dict: a new key goes last, a key already
\* present keeps its place and takes the new body.
dict_set(sections, header, body) ==
  IF \E n \in 1..Len(sections) : sections[n].header = header
  THEN [n \in 1..Len(sections) |->
          IF sections[n].header = header
          THEN [header |-> header, body |-> body]
          ELSE sections[n]]
  ELSE Append(sections, [header |-> header, body |-> body])

\* sections.get(header, '')
dict_get(sections, header) ==
  IF \E n \in 1..Len(sections) : sections[n].header = header
  THEN LET n == CHOOSE n \in 1..Len(sections) : sections[n].header = header
       IN sections[n].body
  ELSE <<>>

\* The loop of parse_sections from line n on.
RECURSIVE parse_from(_, _, _, _, _)
parse_from(content, n, sections, current_header, current_lines) ==
  LET saved == IF current_lines # <<>>
               THEN dict_set(sections, current_header, current_lines)
               ELSE sections
  IN IF n > Len(content) THEN saved
     ELSE IF IsHeader(content[n])
          THEN parse_from(content, n + 1, saved, content[n], <<content[n]>>)
          ELSE parse_from(content, n + 1, sections, current_header,
                          Append(current_lines, content[n]))

parse_sections(content) == parse_from(content, 1, <<>>, "__preamble__", <<>>)

\* A union of the keys that lists the keys of dest first.
all_headers_workspace_first(src_sections, dest_sections) ==
  LET keys == [n \in 1..Len(dest_sections) |-> dest_sections[n].header]
                \o [n \in 1..Len(src_sections) |-> src_sections[n].header]
      First(n) == \A m \in 1..(n - 1) : keys[m] # keys[n]
  IN Concat([n \in 1..Len(keys) |-> IF First(n) THEN <<keys[n]>> ELSE <<>>])

\* The keys of src, then the keys of dest not seen before.
all_headers(src_sections, dest_sections) ==
  LET keys == [n \in 1..Len(src_sections) |-> src_sections[n].header]
                \o [n \in 1..Len(dest_sections) |-> dest_sections[n].header]
      First(n) == \A m \in 1..(n - 1) : keys[m] # keys[n]
  IN Concat([n \in 1..Len(keys) |-> IF First(n) THEN <<keys[n]>> ELSE <<>>])

\* Is the section of this header the conflict branch of the loop?
section_conflicts(src_sec, dest_sec) ==
  /\ rstrip(src_sec) # rstrip(dest_sec)
  /\ ~IsBlank(src_sec)
  /\ ~IsBlank(dest_sec)

\* A loop that takes the side of the workspace where both sides differ.
merged_part_prefers_workspace(src_sec, dest_sec) ==
  IF rstrip(src_sec) = rstrip(dest_sec)
  THEN IF dest_sec # <<>> THEN dest_sec ELSE src_sec
  ELSE IF IsBlank(dest_sec) THEN src_sec
  ELSE dest_sec

\* What the loop appends to merged_parts for one header.
merged_part(src_sec, dest_sec) ==
  IF rstrip(src_sec) = rstrip(dest_sec)
  THEN IF dest_sec # <<>> THEN dest_sec ELSE src_sec
  ELSE IF IsBlank(src_sec) THEN dest_sec
  ELSE IF IsBlank(dest_sec) THEN src_sec
  ELSE <<MergeOpen>> \o rstrip(src_sec) \o <<SepMarker>> \o rstrip(dest_sec)
         \o <<MergeClose, BlankLine>>

\* The loop over all_headers.
merge_sections(src_sections, dest_sections, headers) ==
  [merged |-> Concat([n \in 1..Len(headers) |->
                        merged_part(dict_get(src_sections, headers[n]),
                                    dict_get(dest_sections, headers[n]))]),
   has_conflicts |-> \E n \in 1..Len(headers) :
                        section_conflicts(dict_get(src_sections, headers[n]),
                                          dict_get(dest_sections, headers[n])),
   none |-> FALSE]

merge_parsed(src_sections, dest_sections) ==
  merge_sections(src_sections, dest_sections,
                 all_headers(src_sections, dest_sections))

section_merge(src_content, dest_content) ==
  merge_parsed(parse_sections(src_content), parse_sections(dest_content))

----------------------------------------------------------------------------
(* git merge-file -p -L repoconfig -L base -L workspace src base dest,      *)
(* for a base that is a subsequence of both sides                          *)

\* The ways the lines of base from line n on lie in side from line lo on.
RECURSIVE EmbeddingsFrom(_, _, _, _)
EmbeddingsFrom(base, side, n, lo) ==
  IF n > Len(base) THEN {<<>>}
  ELSE UNION {{<<q>> \o rest : rest \in EmbeddingsFrom(base, side, n + 1, q + 1)} :
                q \in {r \in lo..Len(side) : side[r] = base[n]}}

\* The ways the lines of base lie in side, in order.  Where a line repeats
\* there are several, and the diff of git settles on one of them.
Embeddings(base, side) == EmbeddingsFrom(base, side, 1, 1)

\* The lines a side inserts after base line g (g = 0: before the first).
Inserted(base, side, pos, g) ==
  LET lo == IF g = 0 THEN 1 ELSE pos[g] + 1
      hi == IF g = Len(base) THEN Len(side) ELSE pos[g + 1] - 1
  IN SubSeq(side, lo, hi)

\* Two conflicts with at most this many common lines between them are
\* written as one (xdl_simplify_merge).
MergeContext == 3

ConflictBlock(ours, theirs) ==
  <<MergeOpen>> \o ours \o <<SepMarker>> \o theirs \o <<MergeClose>>

\* The state of the walk over the gaps of base: the output so far, the
\* number of conflicts written, and the conflict still open with the base
\* lines passed since it.
WalkStart ==
  [out |-> <<>>, n |-> 0, open |-> FALSE,
   ours |-> <<>>, theirs |-> <<>>, ctx |-> <<>>]

\* Write the open conflict, if any, and the base lines after it.
Flush(acc) ==
  IF acc.open
  THEN [out |-> acc.out \o ConflictBlock(acc.ours, acc.theirs) \o acc.ctx,
        n |-> acc.n + 1, open |-> FALSE,
        ours |-> <<>>, theirs |-> <<>>, ctx |-> <<>>]
  ELSE acc

\* A gap where src inserts S and dest inserts D: nothing, the change of one
\* side, or a conflict, which joins the open one when that is near enough.
AtGap(acc, S, D) ==
  IF S = <<>> /\ D = <<>> THEN acc
  ELSE IF S = <<>> THEN [Flush(acc) EXCEPT !.out = @ \o D]
  ELSE IF D = <<>> \/ S = D THEN [Flush(acc) EXCEPT !.out = @ \o S]
  ELSE IF acc.open /\ Len(acc.ctx) <= MergeContext
       THEN [acc EXCEPT !.ours = @ \o acc.ctx \o S,
                        !.theirs = @ \o acc.ctx \o D,
                        !.ctx = <<>>]
       ELSE [Flush(acc) EXCEPT !.open = TRUE, !.ours = S, !.theirs = D]

\* A line of base, common to both sides.
AtLine(acc, l) ==
  IF acc.open THEN [acc EXCEPT !.ctx = Append(@, l)]
  ELSE [acc EXCEPT !.out = Append(@, l)]

RECURSIVE merge_walk(_, _, _, _, _, _, _)
merge_walk(base, src, dest, p1, p2, g, acc) ==
  IF g = Len(base)
  THEN Flush(AtGap(acc, Inserted(base, src, p1, g),
                   Inserted(base, dest, p2, g)))
  ELSE merge_walk(base, src, dest, p1, p2, g + 1,
                  AtLine(AtGap(acc, Inserted(base, src, p1, g),
                               Inserted(base, dest, p2, g)),
                         base[g + 1]))

\* stdout and exit status of a run that ends normally.
git_merge_file(src, base, dest, p1, p2) ==
  LET end == merge_walk(base, src, dest, p1, p2, 0, WalkStart)
  IN [stdout |-> end.out, returncode |-> end.n]

\* How the run of the external program can end: it exits with the number of
\* conflicts, exits with an error (status 255), is killed by a signal
\* (returncode < 0), cannot be started (FileNotFoundError), an exception is
\* raised around it (temporary files), or it never exits: subprocess.run is
\* given no timeout.
GitOutcomes ==
  {"exit", "error_exit", "killed", "not_found", "io_error", "hangs"}

----------------------------------------------------------------------------
(* try_git_merge *)

None == [merged |-> <<>>, has_conflicts |-> FALSE, none |-> TRUE]

\* A return value that reports a run that could not start as a conflict.
merge_result_raises(outcome, result) ==
  IF outcome \in {"killed", "hangs"} THEN None
  ELSE IF outcome \in {"not_found", "io_error", "error_exit"}
       THEN [merged |-> <<>>, has_conflicts |-> TRUE, none |-> FALSE]
  ELSE [merged |-> result.stdout,
        has_conflicts |-> result.returncode > 0
                            \/ ContainsMarkerText(result.stdout),
        none |-> FALSE]

\* The return value, given how the run ended and what it printed.
merge_result(outcome, result) ==
  IF outcome \in {"not_found", "io_error"} THEN None
  ELSE IF outcome = "killed" THEN None
  \* no return at all: the caller never sees a value (CaptureHangs)
  ELSE IF outcome = "hangs" THEN None
  ELSE IF outcome = "error_exit"
       THEN [merged |-> <<>>, has_conflicts |-> TRUE, none |-> FALSE]
  ELSE [merged |-> result.stdout,
        has_conflicts |-> result.returncode > 0
                            \/ ContainsMarkerText(result.stdout),
        none |-> FALSE]

\* A try_git_merge that runs git whatever the base is.
merge_without_base_test(src_content, base_content, dest_content, outcome, p1, p2) ==
  merge_result(outcome, git_merge_file(src_content, base_content,
                                       dest_content, p1, p2))

\* try_git_merge from the test of base_content on.
merge_on_base(src_content, base_content, dest_content, outcome, p1, p2) ==
  IF IsBlank(base_content) THEN None
  ELSE merge_result(outcome, git_merge_file(src_content, base_content,
                                            dest_content, p1, p2))

\* p1 and p2 are the places where git finds the lines of the base in
\* src_content and dest_content.
try_git_merge(src_content, dest_content, outcome, p1, p2) ==
  merge_on_base(src_content, base_lines(src_content, dest_content),
                dest_content, outcome, p1, p2)

----------------------------------------------------------------------------
(* has_real_conflict_markers: the detector that test_dev.py tests and the   *)
(* specification describes in section 4.1; dev.py does not define it.      *)

\* line.strip() starts with three backticks
IsFence(l) == l = FenceLine

\* a backtick anywhere in the line
HasBacktick(l) == l \in {FenceLine, QuotedMarker}

\* '<<<<<<<' or '>>>>>>>' at line start followed by whitespace or a label,
\* or '=======' at line start
IsMarkerLine(l) ==
  l \in {OpenMarker, SepMarker, CloseMarker, MergeOpen, MergeClose}

\* The scan from line n on; in_block is the fence toggle.
RECURSIVE scan_markers(_, _, _)
scan_markers(content, n, in_block) ==
  IF n > Len(content) THEN FALSE
  ELSE IF IsFence(content[n]) THEN scan_markers(content, n + 1, ~in_block)
  ELSE IF in_block THEN scan_markers(content, n + 1, in_block)
  ELSE IF HasBacktick(content[n]) THEN scan_markers(content, n + 1, in_block)
  ELSE IF IsMarkerLine(content[n]) THEN TRUE
  ELSE scan_markers(content, n + 1, in_block)

has_real_conflict_markers(content) == scan_markers(content, 1, FALSE)

----------------------------------------------------------------------------
(* State *)

VARIABLES
  canon,        \* CONFIG_DIR/copilot-instructions.md, the canonical copy
  work,         \* base_path/.github/copilot-instructions.md, the workspace copy
  os,           \* the platform the tool runs on
  repos_empty,  \* config['repos'] was empty when cmd_repo_sync loaded it
  head,         \* the canonical copy as last committed in the rcfiles clone
  origin,       \* the canonical copy on the remote
  pc,           \* where cmd_repo_sync stands; "blocked" when the process
                \* waits for a git that never exits
  ops,          \* calls of capture and apply so far
  cmd,          \* the last top-level command that returned
  start,        \* both files when the running or last cmd_repo_sync began
  rcfiles,      \* what the last sync_rcfiles did
  last,         \* the last call of capture or apply: files before and
                \* after, what it wrote, returned and printed
  prev          \* the call of capture or apply before that one

vars == <<canon, work, os, repos_empty, head, origin, pc, ops, cmd, start,
          rcfiles, last, prev>>

OsKinds == {"posix", "windows"}
EolKinds == {"LF", "CRLF"}

AbsentFile == [ex |-> FALSE, text |-> <<>>, eol |-> "LF"]

\* Path.read_text(encoding='utf-8'): text mode with universal newlines, so
\* "\r\n" on disk is read as "\n"; the result is the lines alone.
read_text(f) == f.text

\* Path.write_text(content, encoding='utf-8'): text mode, so each "\n" is
\* written as os.linesep.
write_text(content) ==
  [ex |-> TRUE, text |-> content,
   eol |-> IF os = "windows" /\ content # <<>> THEN "CRLF" ELSE "LF"]

\* content.replace('\r\n', '\n') on a string read by read_text: no "\r\n"
\* is left in it to replace.
normalized(content) == content

NotCalled == [called |-> FALSE, ret |-> None]
Called(r) == [called |-> TRUE, ret |-> r]

\* git is how the run of git merge-file in the call ended, "not run" if the
\* call ran none; ret is "never" for a call that does not return.
NoCall ==
  [op |-> "none", canon0 |-> AbsentFile, work0 |-> AbsentFile,
   canon1 |-> AbsentFile, work1 |-> AbsentFile, wrote |-> {},
   ret |-> "None", log |-> "none", tgm |-> NotCalled, sm |-> NotCalled,
   git |-> "not run"]

NoRcfiles == [committed |-> FALSE, pull |-> "none", pushed |-> FALSE]

Docs(n) == UNION {[1..k -> LineTexts] : k \in 0..n}

StoredFiles(n, eols) ==
  {AbsentFile} \cup
  {[ex |-> TRUE, text |-> d, eol |-> IF d = <<>> THEN "LF" ELSE e] :
     d \in Docs(n), e \in eols}

\* Both files hold any lines at all, MaxLines of them together; the rcfiles
\* clone is clean and level with its remote.
Init ==
  /\ canon \in StoredFiles(MaxLines, {"LF"})
  /\ work \in StoredFiles(MaxLines - Len(canon.text), {"LF"})
  /\ os = "posix"
  /\ repos_empty = FALSE
  /\ head = canon
  /\ origin = canon
  /\ pc = "idle"
  /\ ops = 0
  /\ cmd = "none"
  /\ start = <<canon, work>>
  /\ rcfiles = NoRcfiles
  /\ last = NoCall
  /\ prev = NoCall

----------------------------------------------------------------------------
(* merge_copilot_instructions_to_repoconfig: capture, workspace -> canonical *)

\* The function returns None on every path and prints nothing.
CaptureCall(canon1, wrote, tgm, sm) ==
  [op |-> "capture", canon0 |-> canon, work0 |-> work,
   canon1 |-> canon1, work1 |-> work, wrote |-> wrote,
   ret |-> "None", log |-> "none", tgm |-> tgm, sm |-> sm,
   git |-> "not run"]

CaptureReturn(tgm, sm) ==
  canon' = canon /\ last' = CaptureCall(canon, {}, tgm, sm)

CaptureWrite(content, tgm, sm) ==
  /\ canon' = write_text(content)
  /\ last' = CaptureCall(write_text(content), {"canon"}, tgm, sm)

\* The same with how the run of git ended noted in the record of the call.
CaptureReturnGit(tgm, sm, git) ==
  canon' = canon /\ last' = [CaptureCall(canon, {}, tgm, sm) EXCEPT !.git = git]

CaptureWriteGit(content, tgm, sm, git) ==
  /\ canon' = write_text(content)
  /\ last' = [CaptureCall(write_text(content), {"canon"}, tgm, sm)
                EXCEPT !.git = git]

\* subprocess.run does not return: neither do try_git_merge and capture.
CaptureHangs ==
  /\ canon' = canon
  /\ last' = [CaptureCall(canon, {}, Called(None), NotCalled)
                EXCEPT !.git = "hangs", !.ret = "never"]

\* From the return of try_git_merge on: the fallback and the write.
capture_merged(tgm, sm, git) ==
  IF git = "hangs" THEN CaptureHangs
  ELSE IF tgm.none
  THEN IF sm.merged # <<>>
       THEN CaptureWriteGit(sm.merged, Called(tgm), Called(sm), git)
       ELSE CaptureReturnGit(Called(tgm), Called(sm), git)
  ELSE IF tgm.merged # <<>>
       THEN CaptureWriteGit(tgm.merged, Called(tgm), NotCalled, git)
       ELSE CaptureReturnGit(Called(tgm), NotCalled, git)

\* The merge: the run of git, when there is one, ends in any of its ways.
capture_merge(src_content, dest_content, base_content) ==
  \E outcome \in GitOutcomes,
     p1 \in Embeddings(base_content, src_content),
     p2 \in Embeddings(base_content, dest_content) :
    capture_merged(merge_on_base(src_content, base_content, dest_content,
                                 outcome, p1, p2),
                   section_merge(src_content, dest_content),
                   IF IsBlank(base_content) THEN "not run" ELSE outcome)

\* A capture that merges without comparing the two contents first.
capture_without_equality_test(src_content, dest_content) ==
  IF IsBlank(src_content)
  THEN CaptureWrite(dest_content, NotCalled, NotCalled)
  ELSE IF IsBlank(dest_content) THEN CaptureReturn(NotCalled, NotCalled)
  ELSE capture_merge(src_content, dest_content,
                     base_lines(src_content, dest_content))

\* The function once both files are read.
capture_contents(src_content, dest_content) ==
  IF normalized(src_content) = normalized(dest_content)
  THEN CaptureReturn(NotCalled, NotCalled)
  ELSE IF IsBlank(src_content)
       THEN CaptureWrite(dest_content, NotCalled, NotCalled)
  ELSE IF IsBlank(dest_content) THEN CaptureReturn(NotCalled, NotCalled)
  ELSE capture_merge(src_content, dest_content,
                     base_lines(src_content, dest_content))

merge_copilot_instructions_to_repoconfig ==
  /\ work' = work
  /\ prev' = last
  /\ IF ~work.ex THEN CaptureReturn(NotCalled, NotCalled)
     ELSE capture_contents(IF canon.ex THEN read_text(canon) ELSE <<>>,
                           read_text(work))

----------------------------------------------------------------------------
(* apply_copilot_instructions_to_workspace: apply, canonical -> workspace   *)

\* The function returns None on every path; log is the line it prints.
ApplyCall(canon1, work1, wrote, log) ==
  [op |-> "apply", canon0 |-> canon, work0 |-> work,
   canon1 |-> canon1, work1 |-> work1, wrote |-> wrote,
   ret |-> "None", log |-> log, tgm |-> NotCalled, sm |-> NotCalled,
   git |-> "not run"]

\* The function once both files are read.
apply_contents(src_content, dest_content) ==
  IF normalized(src_content) = normalized(dest_content)
  THEN /\ UNCHANGED <<canon, work>>
       /\ last' = ApplyCall(canon, work, {},
                             IF src_content # <<>> THEN "up to date"
                             ELSE "none")
  ELSE IF ContainsMarkerText(src_content) \/ ContainsMarkerText(dest_content)
  THEN /\ UNCHANGED <<canon, work>>
       /\ last' = ApplyCall(canon, work, {}, "CONFLICT")
  ELSE IF ~IsBlank(src_content)
  THEN /\ work' = write_text(src_content)
       /\ canon' = canon
       /\ last' = ApplyCall(canon, write_text(src_content), {"work"}, "synced")
  ELSE IF ~IsBlank(dest_content)
  THEN /\ canon' = write_text(dest_content)
       /\ work' = work
       /\ last' = ApplyCall(write_text(dest_content), work, {"canon"},
                             "synced from workspace")
  ELSE /\ UNCHANGED <<canon, work>>
       /\ last' = ApplyCall(canon, work, {}, "none")

apply_copilot_instructions_to_workspace ==
  /\ prev' = last
  /\ apply_contents(IF canon.ex THEN read_text(canon) ELSE <<>>,
                    IF work.ex THEN read_text(work) ELSE <<>>)

----------------------------------------------------------------------------
(* sync_rcfiles: commit, pull --rebase, push of the clone that holds the    *)
(* canonical copy                                                          *)

\* The line another machine has pushed meanwhile, when one has.
RemoteLine == "y"

sync_rcfiles ==
  LET has_local_changes == canon # head
      committed == IF has_local_changes THEN canon ELSE head
      remote == [ex |-> TRUE, text |-> Append(origin.text, RemoteLine),
                 eol |-> "LF"]
      Pulls == IF committed = origin
               THEN {"failed", "up to date", "remote"}
               ELSE {"failed", "up to date"}
  IN \E pull \in Pulls, push_ok \in BOOLEAN :
       LET ahead == pull = "up to date" /\ committed # origin
       IN /\ head' = IF pull = "remote" THEN remote ELSE committed
          /\ canon' = IF pull = "remote" THEN remote ELSE canon
          /\ origin' = IF pull = "remote" THEN remote
                       ELSE IF ahead /\ push_ok THEN committed
                       ELSE origin
          /\ rcfiles' = [committed |-> has_local_changes, pull |-> pull,
                         pushed |-> ahead /\ push_ok]

----------------------------------------------------------------------------
(* The commands *)

\* dev.merge_copilot_instructions_to_repoconfig(workspace), called alone
Capture ==
  /\ pc = "idle"
  /\ ops < MaxOps
  /\ merge_copilot_instructions_to_repoconfig
  /\ ops' = ops + 1
  /\ pc' = IF last'.ret = "never" THEN "blocked" ELSE "idle"
  /\ cmd' = IF last'.ret = "never" THEN cmd ELSE "capture"
  /\ UNCHANGED <<os, repos_empty, head, origin, start, rcfiles>>

\* dev.apply_copilot_instructions_to_workspace(workspace), called alone
Apply ==
  /\ pc = "idle"
  /\ ops < MaxOps
  /\ apply_copilot_instructions_to_workspace
  /\ ops' = ops + 1
  /\ cmd' = "apply"
  /\ UNCHANGED <<os, repos_empty, head, origin, pc, start, rcfiles>>

\* cmd_repo_sync from load_config() to the return of the capture call
SyncCapture ==
  /\ pc = "idle"
  /\ ops + 2 <= MaxOps
  /\ repos_empty' \in BOOLEAN
  /\ merge_copilot_instructions_to_repoconfig
  /\ ops' = ops + 1
  /\ start' = <<canon, work>>
  /\ rcfiles' = NoRcfiles
  /\ pc' = IF last'.ret = "never" THEN "blocked" ELSE "rcfiles"
  /\ UNCHANGED <<os, head, origin, cmd>>

\* cmd_repo_sync: the call of sync_rcfiles
SyncRcfiles ==
  /\ pc = "rcfiles"
  /\ sync_rcfiles
  /\ pc' = "repos"
  /\ UNCHANGED <<work, os, repos_empty, ops, cmd, start, last, prev>>

\* cmd_repo_sync: no repositories to sync, return 0
SyncNoRepos ==
  /\ pc = "repos"
  /\ repos_empty
  /\ pc' = "idle"
  /\ cmd' = "repo sync"
  /\ UNCHANGED <<canon, work, os, repos_empty, head, origin, ops, start,
                 rcfiles, last, prev>>

\* cmd_repo_sync: the loop over the tracked repositories; whether each is
\* present, cloned or fails to clone changes neither file
SyncRepos ==
  /\ pc = "repos"
  /\ ~repos_empty
  /\ pc' = "apply"
  /\ UNCHANGED <<canon, work, os, repos_empty, head, origin, ops, cmd, start,
                 rcfiles, last, prev>>

\* cmd_repo_sync: the apply call and return 0
SyncApply ==
  /\ pc = "apply"
  /\ apply_copilot_instructions_to_workspace
  /\ ops' = ops + 1
  /\ pc' = "idle"
  /\ cmd' = "repo sync"
  /\ UNCHANGED <<os, repos_empty, head, origin, start, rcfiles>>

Next ==
  \/ Capture
  \/ Apply
  \/ SyncCapture
  \/ SyncRcfiles
  \/ SyncNoRepos
  \/ SyncRepos
  \/ SyncApply

Spec == Init /\ [][Next]_vars

----------------------------------------------------------------------------
(* The same commands on files stored with either line terminator, on either *)
(* platform                                                                 *)

EolTexts == PlainLines \cup {BlankLine}

EolFiles(n) ==
  {AbsentFile} \cup
  {[ex |-> TRUE, text |-> d, eol |-> IF d = <<>> THEN "LF" ELSE e] :
     d \in UNION {[1..k -> EolTexts] : k \in 0..n}, e \in EolKinds}

InitEol ==
  /\ canon \in EolFiles(MaxLines)
  /\ work \in EolFiles(MaxLines - Len(canon.text))
  /\ os \in OsKinds
  /\ repos_empty = FALSE
  /\ head = canon
  /\ origin = canon
  /\ pc = "idle"
  /\ ops = 0
  /\ cmd = "none"
  /\ start = <<canon, work>>
  /\ rcfiles = NoRcfiles
  /\ last = NoCall
  /\ prev = NoCall

SpecEol == InitEol /\ [][Next]_vars

----------------------------------------------------------------------------
(* section_merge on its own, applied to any two documents *)

\* Lines of documents made of sections.
SectionTexts == HeaderLines \cup PlainLines \cup {BlankLine}

SectionDocs ==
  {[ex |-> TRUE, text |-> d, eol |-> "LF"] :
     d \in UNION {[1..k -> SectionTexts] : k \in 0..MaxLines}}

\* Each of the two documents has up to MaxLines lines.
InitSM ==
  /\ canon \in SectionDocs
  /\ work \in SectionDocs
  /\ os = "posix"
  /\ repos_empty = FALSE
  /\ head = canon
  /\ origin = canon
  /\ pc = "idle"
  /\ ops = 0
  /\ cmd = "none"
  /\ start = <<canon, work>>
  /\ rcfiles = NoRcfiles
  /\ last = NoCall
  /\ prev = NoCall

\* section_merge(src_content, dest_content) on the two documents
SectionMerge ==
  /\ last.op = "none"
  /\ last' = [NoCall EXCEPT
                !.op = "section_merge",
                !.canon0 = canon, !.work0 = work,
                !.canon1 = canon, !.work1 = work,
                !.sm = Called(section_merge(read_text(canon), read_text(work)))]
  /\ prev' = last
  /\ UNCHANGED <<canon, work, os, repos_empty, head, origin, pc, ops, cmd,
                 start, rcfiles>>

NextSM == SectionMerge

SpecSM == InitSM /\ [][NextSM]_vars

----------------------------------------------------------------------------
(* try_git_merge on its own, applied to any two contents *)

\* Each of the two contents has up to MaxLines lines.
BaseDocs ==
  {[ex |-> TRUE, text |-> d, eol |-> "LF"] :
     d \in UNION {[1..k -> EolTexts] : k \in 0..MaxLines}}

InitTGM ==
  /\ canon \in BaseDocs
  /\ work \in BaseDocs
  /\ os = "posix"
  /\ repos_empty = FALSE
  /\ head = canon
  /\ origin = canon
  /\ pc = "idle"
  /\ ops = 0
  /\ cmd = "none"
  /\ start = <<canon, work>>
  /\ rcfiles = NoRcfiles
  /\ last = NoCall
  /\ prev = NoCall

\* Where git may find the lines of the base in a side; a run of git that is
\* not reached, or that prints nothing, has no use for them.
Places(base, side) ==
  IF Embeddings(base, side) = {} THEN {<<>>} ELSE Embeddings(base, side)

\* try_git_merge(src_content, dest_content)
TryGitMerge ==
  /\ last.op = "none"
  /\ \E outcome \in GitOutcomes,
        p1 \in Places(base_lines(read_text(canon), read_text(work)),
                      read_text(canon)),
        p2 \in Places(base_lines(read_text(canon), read_text(work)),
                      read_text(work)) :
       /\ (outcome = "exit"
             /\ ~IsBlank(base_lines(read_text(canon), read_text(work)))) =>
            /\ p1 \in Embeddings(base_lines(read_text(canon), read_text(work)),
                                 read_text(canon))
            /\ p2 \in Embeddings(base_lines(read_text(canon), read_text(work)),
                                 read_text(work))
       /\ last' = [NoCall EXCEPT
                     !.op = "try_git_merge",
                     !.canon0 = canon, !.work0 = work,
                     !.canon1 = canon, !.work1 = work,
                     !.ret = IF outcome = "hangs"
                                  /\ ~IsBlank(base_lines(read_text(canon),
                                                         read_text(work)))
                             THEN "never" ELSE "None",
                     !.git = IF IsBlank(base_lines(read_text(canon),
                                                   read_text(work)))
                             THEN "not run" ELSE outcome,
                     !.tgm = Called(try_git_merge(read_text(canon),
                                                  read_text(work),
                                                  outcome, p1, p2))]
  /\ prev' = last
  /\ UNCHANGED <<canon, work, os, repos_empty, head, origin, pc, ops, cmd,
                 start, rcfiles>>

NextTGM == TryGitMerge

SpecTGM == InitTGM /\ [][NextTGM]_vars

----------------------------------------------------------------------------
(* The terms the properties below are stated in *)

\* The lines of content from line n on that section 4.1 looks at: outside
\* every fenced block, fences and lines with a backtick left out.
RECURSIVE outside_fences(_, _, _)
outside_fences(content, n, in_block) ==
  IF n > Len(content) THEN <<>>
  ELSE IF IsFence(content[n]) THEN outside_fences(content, n + 1, ~in_block)
  ELSE IF in_block \/ HasBacktick(content[n])
       THEN outside_fences(content, n + 1, in_block)
  ELSE <<content[n]>> \o outside_fences(content, n + 1, in_block)

IsOpenLine(l) == l \in {OpenMarker, MergeOpen}
IsCloseLine(l) == l \in {CloseMarker, MergeClose}

\* An opening, a separator and a closing marker line, in this order.
HasTriple(lines) ==
  \E i, j, k \in 1..Len(lines) :
    /\ i < j /\ j < k
    /\ IsOpenLine(lines[i]) /\ lines[j] = SepMarker /\ IsCloseLine(lines[k])

RealTriple(content) == HasTriple(outside_fences(content, 1, FALSE))

\* The lines of a file that are not blank.
Lines(f) == {f.text[i] : i \in 1..Len(f.text)} \ {BlankLine}

\* What a call tells its caller.  apply prints one line on each path that
\* does something.  capture prints nothing and returns None on every path:
\* all there is to see is whether it wrote the canonical copy.
Outcome(call) ==
  IF call.op = "capture"
  THEN IF call.wrote # {} THEN "changed" ELSE "no-change"
  ELSE IF call.log = "CONFLICT" THEN "blocked-by-conflict"
  ELSE IF call.log \in {"synced", "synced from workspace"} THEN "changed"
  ELSE "no-change"

\* The last two calls ran back to back: nothing wrote either file between.
BackToBack == last.canon0 = prev.canon1 /\ last.work0 = prev.work1

\* No merger that ran in this call reported a conflict.
NoConflictReported(call) ==
  /\ (call.tgm.called /\ ~call.tgm.ret.none) => ~call.tgm.ret.has_conflicts
  /\ call.sm.called => ~call.sm.ret.has_conflicts

\* work is canon followed by one or more appended '## ' sections.
AppendsSections(canon_text, work_text) ==
  /\ Len(work_text) > Len(canon_text)
  /\ SubSeq(work_text, 1, Len(canon_text)) = canon_text
  /\ IsHeader(work_text[Len(canon_text) + 1])

\* The Merge Result invariant of one return value (merged, has_conflicts).
MergeResultOk(r) ==
  (r.called /\ ~r.ret.none) =>
    IF r.ret.has_conflicts THEN HasTriple(r.ret.merged)
    ELSE ~has_real_conflict_markers(r.ret.merged)

----------------------------------------------------------------------------
(* Properties *)

\* C1: capture of a workspace copy that holds a real marker triple (outside
\* code fences) writes nothing, leaves the canonical copy as it was, and its
\* outcome is blocked-by-conflict.
C1_CaptureBlockedByWorkspaceMarkers ==
  (last.op = "capture" /\ last.work0.ex /\ RealTriple(last.work0.text)) =>
    /\ last.wrote = {}
    /\ last.canon1 = last.canon0
    /\ Outcome(last) = "blocked-by-conflict"

\* C2: apply of a canonical copy that holds real conflict markers writes
\* neither file, both are as they were, and its outcome is
\* blocked-by-conflict.
C2_ApplyBlockedByCanonicalMarkers ==
  (last.op = "apply" /\ last.canon0.ex
     /\ has_real_conflict_markers(last.canon0.text)) =>
    /\ last.wrote = {}
    /\ last.canon1 = last.canon0
    /\ last.work1 = last.work0
    /\ Outcome(last) = "blocked-by-conflict"

\* C3: capture and then apply, back to back, of a workspace document and a
\* canonical document without real conflict markers whose merge reports no
\* conflict leave the two copies equal after normalization.
C3_CaptureThenApplyConverges ==
  (/\ last.op = "apply" /\ prev.op = "capture" /\ BackToBack
   /\ prev.work0.ex
   /\ ~has_real_conflict_markers(prev.canon0.text)
   /\ ~has_real_conflict_markers(prev.work0.text)
   /\ NoConflictReported(prev)) =>
    normalized(read_text(last.canon1)) = normalized(read_text(last.work1))

\* C4: when cmd_repo_sync has returned, every non-blank line that was in the
\* workspace copy or in the canonical copy when it began is in one of the two
\* copies.
C4_NoSilentDiscard ==
  (pc = "idle" /\ cmd = "repo sync") =>
    (Lines(start[1]) \cup Lines(start[2])) \subseteq (Lines(canon) \cup Lines(work))

\* C5: the second of two captures run back to back does not write the
\* canonical copy and leaves it as the first left it: no-change.
C5_CaptureIdempotent ==
  (last.op = "capture" /\ prev.op = "capture" /\ BackToBack) =>
    /\ last.wrote = {}
    /\ last.canon1 = last.canon0
    /\ Outcome(last) = "no-change"

\* C6: capture with a workspace copy that is not blank, holds no marker and
\* differs from a canonical copy that is not blank leaves the canonical copy
\* with exactly the content of the workspace copy.
C6_WorkspaceIsSourceOfTruth ==
  (/\ last.op = "capture" /\ last.work0.ex /\ last.canon0.ex
   /\ ~IsBlank(last.work0.text) /\ ~IsBlank(last.canon0.text)
   /\ ~has_real_conflict_markers(last.work0.text)
   /\ ~ContainsMarkerText(last.work0.text)
   /\ last.work0.text # last.canon0.text) =>
    read_text(last.canon1) = read_text(last.work0)

\* C7: capture of a workspace copy that is the canonical copy followed by
\* appended '## ' sections leaves every line of both in the canonical copy,
\* and its outcome is changed.
C7_AdditiveCapture ==
  (/\ last.op = "capture" /\ last.work0.ex /\ last.canon0.ex
   /\ AppendsSections(last.canon0.text, last.work0.text)) =>
    /\ (Lines(last.canon0) \cup Lines(last.work0)) \subseteq Lines(last.canon1)
    /\ Outcome(last) = "changed"

\* C8: documents in which marker text stands only on lines with a backtick
\* or inside fenced blocks block neither capture nor apply.
C8_QuotedMarkersDoNotBlock ==
  (/\ last.op \in {"capture", "apply"}
   /\ ~has_real_conflict_markers(last.canon0.text)
   /\ ~has_real_conflict_markers(last.work0.text)) =>
    Outcome(last) # "blocked-by-conflict"

\* C9: where apply classifies its two documents (they differ), it finds
\* conflict markers if and only if one of them has a line outside every
\* fenced block and without a backtick that is a marker line.
C9_RealMarkerDetection ==
  (last.op = "apply" /\ read_text(last.canon0) # read_text(last.work0)) =>
    (Outcome(last) = "blocked-by-conflict"
       <=> \/ has_real_conflict_markers(last.canon0.text)
           \/ has_real_conflict_markers(last.work0.text))

\* C10: what try_git_merge (when it returns a result) and section_merge
\* return has no real conflict marker in merged when has_conflicts is false
\* and a complete marker triple in merged when has_conflicts is true.
C10_MergeResultInvariant ==
  MergeResultOk(last.tgm) /\ MergeResultOk(last.sm)

\* The base try_git_merge reconstructs in a call of capture.
BaseOf(call) == base_lines(read_text(call.canon0), read_text(call.work0))

RECURSIVE sections_from(_, _, _)
sections_from(content, n, current) ==
  LET done == IF current = <<>> THEN <<>> ELSE <<current>>
  IN IF n > Len(content) THEN done
     ELSE IF IsHeader(content[n])
          THEN done \o sections_from(content, n + 1, <<content[n]>>)
          ELSE sections_from(content, n + 1, Append(current, content[n]))

AllSections(content) == sections_from(content, 1, <<>>)

\* part stands in whole as consecutive lines.
IsInfix(part, whole) ==
  \E i \in 0..(Len(whole) - Len(part)) :
    SubSeq(whole, i + 1, i + Len(part)) = part

\* C12: every section (and the preamble) of either input of section_merge
\* stands in its output, up to trailing blank lines, as it is or inside a
\* conflict block; also where a header line occurs more than once.
C12_SectionMergeLosesNoSection ==
  last.op = "section_merge" =>
    \A content \in {read_text(last.canon0), read_text(last.work0)} :
      \A n \in 1..Len(AllSections(content)) :
        IsInfix(rstrip(AllSections(content)[n]), last.sm.ret.merged)

\* The keys section_merge finds in both documents with different content
\* that is not blank, compared with trailing whitespace stripped.
ConflictKeys(src_sections, dest_sections) ==
  {h \in {src_sections[n].header : n \in 1..Len(src_sections)}
         \cap {dest_sections[n].header : n \in 1..Len(dest_sections)} :
     /\ rstrip(dict_get(src_sections, h)) # rstrip(dict_get(dest_sections, h))
     /\ ~IsBlank(dict_get(src_sections, h))
     /\ ~IsBlank(dict_get(dest_sections, h))}

\* The conflict block of two sections under an opening line.
BlockOf(open, src_sec, dest_sec) ==
  <<open>> \o rstrip(src_sec) \o <<SepMarker>> \o rstrip(dest_sec)
    \o <<MergeClose>>

\* Every conflict key has its block under this opening line in the output,
\* and the flag is set if and only if there is a conflict key.
BlocksAndFlag(open, tail, src_sections, dest_sections, result) ==
  /\ \A h \in ConflictKeys(src_sections, dest_sections) :
       IsInfix(BlockOf(open, dict_get(src_sections, h),
                       dict_get(dest_sections, h)) \o tail,
               result.merged)
  /\ result.has_conflicts <=> ConflictKeys(src_sections, dest_sections) # {}

C14_CaptureIntoEmptyCanonical ==
  (/\ last.op = "capture" /\ last.work0.ex
   /\ IsBlank(read_text(last.canon0))
   /\ normalized(read_text(last.canon0)) # normalized(read_text(last.work0))) =>
    /\ last.canon1.ex
    /\ last.canon1 = last.work0
    /\ ~last.tgm.called /\ ~last.sm.called

\* C15: capture and apply on copies that are equal after normalization write
\* neither file, both stay as stored, line terminators included, and the
\* call returns a falsy value.
C15_NoOpOnEqualContent ==
  (/\ last.op \in {"capture", "apply"}
   /\ normalized(read_text(last.canon0)) = normalized(read_text(last.work0))) =>
    /\ last.wrote = {}
    /\ last.canon1 = last.canon0
    /\ last.work1 = last.work0
    /\ last.ret = "None"
    /\ Outcome(last) = "no-change"

\* A call on two copies with the same lines stored with different line
\* terminators.
C15_Witness ==
  /\ last.op \in {"capture", "apply"}
  /\ last.canon0.ex /\ last.work0.ex
  /\ read_text(last.canon0) = read_text(last.work0)
  /\ last.canon0.eol # last.work0.eol
  /\ last.wrote = {}

\* C16: apply with a canonical copy that is non-empty, holds no conflict
\* markers and is not normalized-equal to the workspace copy leaves a
\* workspace copy that exists with exactly the canonical content, and the
\* outcome is changed.
C16_ApplyReplacesWorkspace ==
  (/\ last.op = "apply"
   /\ last.canon0.ex /\ last.canon0.text # <<>>
   /\ ~has_real_conflict_markers(read_text(last.canon0))
   /\ ~ContainsMarkerText(read_text(last.canon0))
   /\ normalized(read_text(last.canon0)) # normalized(read_text(last.work0))) =>
    /\ last.work1.ex
    /\ last.work1 = last.canon0
    /\ last.canon1 = last.canon0
    /\ Outcome(last) = "changed"

\* C17: apply with the canonical copy absent writes no file, whatever the
\* workspace copy holds; the canonical copy is neither created nor modified.
C17_ApplyWithoutCanonicalIsNoOp ==
  (last.op = "apply" /\ ~last.canon0.ex) =>
    /\ last.wrote = {}
    /\ last.canon1 = last.canon0
    /\ last.work1 = last.work0

\* C18: in cmd_repo_sync, capture has returned before sync_rcfiles commits or
\* pushes the canonical copy, and apply starts only after sync_rcfiles has
\* pulled the canonical copy successfully: never after a pull that failed or
\* was not attempted.
C18_SyncOrdering ==
  /\ pc = "rcfiles" =>
       /\ rcfiles = NoRcfiles
       /\ last.op = "capture" /\ last.ret # "never"
  /\ pc = "blocked" => rcfiles = NoRcfiles
  /\ pc = "apply" => rcfiles.pull \in {"up to date", "remote"}
  /\ (pc = "idle" /\ cmd = "repo sync" /\ last.op = "apply") =>
       rcfiles.pull \in {"up to date", "remote"}

\* C19: when the external line merge cannot be run (git is missing, or the
\* temporary base and side files cannot be created), try_git_merge returns
\* (None, False) and capture completes with the result of section_merge: the
\* call returns, and the canonical copy holds the section merge.
C19_UnavailableMergeFallsBack ==
  (last.op = "capture" /\ last.git \in {"not_found", "io_error"}) =>
    /\ last.tgm = Called(None)
    /\ last.sm = Called(section_merge(read_text(last.canon0),
                                      read_text(last.work0)))
    /\ last.ret = "None"
    /\ last.wrote = {"canon"}
    /\ read_text(last.canon1) = last.sm.ret.merged
    /\ last.work1 = last.work0
    /\ pc # "blocked"

C19_Witness ==
  /\ last.op = "capture" /\ last.git = "not_found"
  /\ last.tgm = Called(None) /\ last.sm.called
  /\ last.wrote = {"canon"}
  /\ pc = "rcfiles"

\* C20: when the external merge process exits with an error status (one that
\* prints no merged output), is killed, or does not end, try_git_merge
\* returns (None, False) and capture falls back to section_merge: the exit is
\* not turned into a merge result, and the call returns.
C20_ExternalMergeExitHandling ==
  (last.op = "capture" /\ last.git \in {"error_exit", "killed", "hangs"}) =>
    /\ last.tgm = Called(None)
    /\ last.sm = Called(section_merge(read_text(last.canon0),
                                      read_text(last.work0)))
    /\ last.ret = "None"
    /\ pc # "blocked"

\* The value a call returned, read as a status: None is falsy and reads as
\* 'no change'; only a truthy value reads as 'changed'.
ReturnedStatus(call) == IF call.ret = "None" THEN "no change" ELSE call.ret

\* C21: capture returns 'changed' exactly when the content of the canonical
\* copy after the call differs from its content before the call, and
\* 'no change' otherwise.
C21_CaptureStatus ==
  (last.op = "capture" /\ last.ret # "never") =>
    IF read_text(last.canon1) # read_text(last.canon0)
    THEN ReturnedStatus(last) = "changed"
    ELSE ReturnedStatus(last) = "no change"

\* The key of a section read off its text: its header line, or the preamble
\* key for the lines before the first header.
KeyOf(sec) == IF IsHeader(sec[1]) THEN sec[1] ELSE "__preamble__"

\* A sequence without the later occurrences of its elements.
FirstSeen(keys) ==
  Concat([n \in 1..Len(keys) |->
            IF \A m \in 1..(n - 1) : keys[m] # keys[n] THEN <<keys[n]>>
            ELSE <<>>])

\* The keys of a document in the order in which they are first seen.
KeysOf(content) ==
  FirstSeen([n \in 1..Len(AllSections(content)) |->
               KeyOf(AllSections(content)[n])])

\* The keys of the canonical document, then the keys only the workspace
\* document has.
UnionKeys(src_content, dest_content) ==
  FirstSeen(KeysOf(src_content) \o KeysOf(dest_content))

SectionsOfKey(content, key) ==
  {AllSections(content)[n] : n \in {m \in 1..Len(AllSections(content)) :
                                      KeyOf(AllSections(content)[m]) = key}}

\* What the output may hold for one key: a section of that key from either
\* document, or the conflict block of two of them.
PartsFor(key, src_content, dest_content) ==
  SectionsOfKey(src_content, key) \cup SectionsOfKey(dest_content, key)
    \cup {BlockOf(MergeOpen, s, d) \o <<BlankLine>> :
            s \in SectionsOfKey(src_content, key),
            d \in SectionsOfKey(dest_content, key)}

\* merged from line pos on is one part for each of the keys from the n-th
\* on, in their order, and nothing else.
RECURSIVE PartsInOrder(_, _, _, _, _, _)
PartsInOrder(keys, n, merged, pos, src_content, dest_content) ==
  IF n > Len(keys) THEN pos = Len(merged) + 1
  ELSE \E part \in PartsFor(keys[n], src_content, dest_content) :
         /\ pos + Len(part) - 1 <= Len(merged)
         /\ SubSeq(merged, pos, pos + Len(part) - 1) = part
         /\ PartsInOrder(keys, n + 1, merged, pos + Len(part),
                         src_content, dest_content)

\* C22: the output of section_merge holds one part for each section key, in
\* first-seen order over the keys of the canonical document followed by the
\* keys of the workspace document: canonical keys keep their order and the
\* keys only the workspace has come after all of them.
C22_SectionOrder ==
  last.op = "section_merge" =>
    PartsInOrder(UnionKeys(read_text(last.canon0), read_text(last.work0)),
                 1, last.sm.ret.merged, 1,
                 read_text(last.canon0), read_text(last.work0))

\* The workspace lists the two canonical keys the other way round and has a
\* key of its own.
C22_Witness ==
  /\ last.op = "section_merge"
  /\ KeysOf(read_text(last.canon0)) = <<"## A", "## B">>
  /\ KeysOf(read_text(last.work0)) = <<"__preamble__", "## B", "## A">>
  /\ last.sm.ret.merged = <<"## A", "## B">> \o SubSeq(read_text(last.work0), 1, 1)

\* part is whole with zero or more lines left out.
RECURSIVE IsSubsequence(_, _)
IsSubsequence(part, whole) ==
  IF part = <<>> THEN TRUE
  ELSE IF whole = <<>> THEN FALSE
  ELSE IF Head(part) = Head(whole)
       THEN IsSubsequence(Tail(part), Tail(whole))
       ELSE IsSubsequence(part, Tail(whole))

\* The ranges <<i, j, k>> hold the same lines in a and in b and follow one
\* another in both.
EqualRangesInOrder(a, b, blocks) ==
  /\ \A n \in 1..Len(blocks) :
       /\ blocks[n][3] >= 1
       /\ blocks[n][1] >= 1 /\ blocks[n][1] + blocks[n][3] - 1 <= Len(a)
       /\ blocks[n][2] >= 1 /\ blocks[n][2] + blocks[n][3] - 1 <= Len(b)
       /\ SubSeq(a, blocks[n][1], blocks[n][1] + blocks[n][3] - 1)
            = SubSeq(b, blocks[n][2], blocks[n][2] + blocks[n][3] - 1)
  /\ \A n \in 1..(Len(blocks) - 1) :
       /\ blocks[n][1] + blocks[n][3] <= blocks[n + 1][1]
       /\ blocks[n][2] + blocks[n][3] <= blocks[n + 1][2]

\* The lines of the ranges as they stand in b.
RangesOfB(b, blocks) ==
  Concat([n \in 1..Len(blocks) |->
            SubSeq(b, blocks[n][2], blocks[n][2] + blocks[n][3] - 1)])

\* The base of two line sequences is their 'equal' ranges in order, and a
\* common subsequence of both.
BaseIsCommonSubsequence(a, b, blocks, base) ==
  /\ EqualRangesInOrder(a, b, blocks)
  /\ base = RangesOfB(b, blocks)
  /\ IsSubsequence(base, a)
  /\ IsSubsequence(base, b)

\* C23: the base try_git_merge reconstructs is the in-order concatenation of
\* the line ranges the matcher classifies as equal, and so a common
\* subsequence of the canonical lines and of the workspace lines.
C23_ReconstructedBase ==
  last.op = "try_git_merge" =>
    BaseIsCommonSubsequence(
      read_text(last.canon0), read_text(last.work0),
      get_matching_blocks(read_text(last.canon0), read_text(last.work0),
                          1, Len(read_text(last.canon0)),
                          1, Len(read_text(last.work0))),
      BaseOf(last))

\* Two equal ranges with different lines, and a line of its own on each side
\* between them.
C23_Witness ==
  /\ last.op = "try_git_merge"
  /\ Len(read_text(last.canon0)) = 3 /\ Len(read_text(last.work0)) = 3
  /\ Len(BaseOf(last)) = 2 /\ BaseOf(last)[1] # BaseOf(last)[2]
  /\ read_text(last.canon0)[2] # read_text(last.work0)[2]
  /\ last.git = "exit"

\* C24: when try_git_merge returns a result, its conflict flag is true if and
\* only if the merged text holds a conflict-marker region or the merge step
\* ended with a nonzero or error status (git merge-file exits with the
\* number of regions it wrote); text that only quotes '<<<<<<<' in a merge
\* that is clean does not set the flag.  A marker line that stands outside
\* quotes and fences counts as a region here even without the other two.
C24_ConflictSignal ==
  (last.op = "capture" /\ last.tgm.called /\ ~last.tgm.ret.none) =>
    /\ (RealTriple(last.tgm.ret.merged) \/ last.git = "error_exit")
         => last.tgm.ret.has_conflicts
    /\ last.tgm.ret.has_conflicts
         => \/ RealTriple(last.tgm.ret.merged)
            \/ has_real_conflict_markers(last.tgm.ret.merged)
            \/ last.git = "error_exit"

\* Neither marker text nor a marker line anywhere in the content.
MarkerFree(content) ==
  ~ContainsMarkerText(content) /\ ~has_real_conflict_markers(content)

\* A merger that ran in this call reported a conflict.
ConflictReported(call) ==
  \/ call.tgm.called /\ ~call.tgm.ret.none /\ call.tgm.ret.has_conflicts
  \/ call.sm.called /\ call.sm.ret.has_conflicts

\* C25: when the canonical copy holds no conflict markers before the capture
\* of cmd_repo_sync (and, here, the workspace copy holds none either), what
\* sync_rcfiles then commits and pushes holds none; a merge result with
\* has_conflicts true is not written to the canonical copy.
C25_ConflictsAreNotPushed ==
  /\ (/\ pc \in {"repos", "apply"}
      /\ rcfiles.committed
      /\ MarkerFree(read_text(start[1]))
      /\ MarkerFree(read_text(start[2]))) =>
       /\ ~has_real_conflict_markers(read_text(head))
       /\ rcfiles.pushed => ~has_real_conflict_markers(read_text(origin))
  /\ (/\ last.op = "capture"
      /\ MarkerFree(read_text(last.canon0))
      /\ MarkerFree(read_text(last.work0))
      /\ ConflictReported(last)) =>
       last.wrote = {}

\* C26: a cmd_repo_sync that has run capture and sync_rcfiles has run apply
\* by the time it returns, whatever the registry holds (an empty list of
\* repositories too): at its return the last call made is apply.
C26_ApplyAlwaysHappens ==
  (pc = "idle" /\ cmd = "repo sync") => last.op = "apply"

====
